---------------------------- MODULE Spec2Model ----------------------------
(***************************************************************************)
(* Model of the supplier-feed reconciliation and batched upload pipeline   *)
(* of seller.py (first marketplace) and market.py (second marketplace).    *)
(*                                                                         *)
(* Strings that the code takes apart (quantity and price tokens) are       *)
(* sequences of one-character strings; offer ids and item codes, which     *)
(* the code only compares, are plain strings.                              *)
(***************************************************************************)
EXTENDS Integers, Sequences, FiniteSets, TLC

VARIABLES
    market,          \* "seller" (seller.py) or "market" (market.py)
    flow,            \* the function under way
    watch_remnants,  \* the supplier feed: list of records Kod, Kolichestvo, Tsena
    catalog,         \* the marketplace's catalog (server side), initial contents
    catalog_dbs,     \* market.main: the catalog of the DBS campaign (catalog: FBS)
    offer_ids,       \* the program's list of catalog ids (mutated by create_stocks)
    stocks,          \* list built by create_stocks
    prices,          \* list built by create_prices
    stocks_ret,      \* "none" | "returned" | "raised": outcome of create_stocks
    prices_ret,      \* "none" | "returned" | "raised": outcome of create_prices
    lst, n,          \* arguments of divide
    chunks,          \* what consuming divide(lst, n) yielded
    divide_ret,      \* "none" | "returned" | "raised": outcome of list(divide(lst, n))
    pc,              \* "idle" | "page" | "download" | "batch" | "returned" | "raised"
    page,            \* last_id / page: the cursor of the next page request (0: empty)
    product_list,    \* ids of the products fetched so far
    batches,         \* list(divide(updates, ceiling)) of the phase under way
    sent,            \* number of batches of the phase whose submission returned
    phase,           \* "stocks" | "prices": which list is being submitted
    not_empty,       \* upload_stocks: the stock updates with a count other than 0
    inflight,        \* the request awaiting its response, "none" when there is none
    calls,           \* every request issued, in issue order
    answered,        \* number of requests whose response has arrived
    replies,         \* the page responses received: items count, total, next cursor
    campaign,        \* market.main: "FBS" | "DBS", the campaign under way ("" elsewhere)
    error            \* the exception raised (upload_*) or caught (main), "" when none

pureVars == <<lst, n, chunks, divide_ret>>
feedVars == <<market, flow, watch_remnants, catalog, catalog_dbs>>
listVars == <<offer_ids, stocks, prices, stocks_ret, prices_ret>>
loopVars == <<pc, page, product_list, batches, sent, phase, not_empty, error, campaign>>
netVars  == <<inflight, calls, answered, replies>>

vars == <<feedVars, listVars, pureVars, loopVars, netVars>>

---------------------------------------------------------------------------
(* Bounds of the model *)

MaxFeedLen == 2
MaxCatalogLen == 3
MaxListLen == 4
MaxChunk == 3

---------------------------------------------------------------------------
(* Python built-ins used by the code *)

Digits == {"0", "1", "2", "3", "4", "5", "6", "7", "8", "9"}

DigitVal(c) ==
    CASE c = "0" -> 0 [] c = "1" -> 1 [] c = "2" -> 2 [] c = "3" -> 3
      [] c = "4" -> 4 [] c = "5" -> 5 [] c = "6" -> 6 [] c = "7" -> 7
      [] c = "8" -> 8 [] c = "9" -> 9

Min(a, b) == IF a < b THEN a ELSE b

\* x in list
In(x, list) == \E k \in 1..Len(list) : list[k] = x

\* list.remove(x): drops the first occurrence of x (x is in list)
Remove(list, x) ==
    LET k == CHOOSE k \in 1..Len(list) :
                 list[k] = x /\ \A j \in 1..(k - 1) : list[j] # x
    IN  SubSeq(list, 1, k - 1) \o SubSeq(list, k + 1, Len(list))

\* int(s) raises ValueError unless s is an optional sign followed by digits
int_raises(s) ==
    LET body == IF s # <<>> /\ s[1] \in {"-", "+"} THEN Tail(s) ELSE s
    IN  body = <<>> \/ \E k \in 1..Len(body) : body[k] \notin Digits

RECURSIVE DigitsValue(_)
DigitsValue(s) ==
    IF s = <<>> THEN 0
    ELSE 10 * DigitsValue(SubSeq(s, 1, Len(s) - 1)) + DigitVal(s[Len(s)])

\* int(s) for a string that parses
int_value(s) ==
    IF s[1] = "-" THEN 0 - DigitsValue(Tail(s))
    ELSE IF s[1] = "+" THEN DigitsValue(Tail(s))
    ELSE DigitsValue(s)

\* range(start, stop, step), as the list of its values (step # 0)
RECURSIVE Range(_, _, _)
Range(start, stop, step) ==
    IF (step > 0 /\ start >= stop) \/ (step < 0 /\ start <= stop) THEN <<>>
    ELSE <<start>> \o Range(start + step, stop, step)

\* lst[a:b] for a slice with 0 <= a (an end past the list is clamped)
Slice(list, a, b) ==
    LET hi == IF b < 0 THEN Len(list) + b ELSE Min(b, Len(list))
    IN  SubSeq(list, a + 1, hi)

---------------------------------------------------------------------------
(* seller.py: price_conversion, divide *)

\* price.split(".")[0]
BeforeFirstDot(price) ==
    IF \E k \in 1..Len(price) : price[k] = "."
    THEN LET k == CHOOSE k \in 1..Len(price) :
                      price[k] = "." /\ \A j \in 1..(k - 1) : price[j] # "."
         IN  SubSeq(price, 1, k - 1)
    ELSE price

\* re.sub("[^0-9]", "", s)
StripNonDigits(s) == SelectSeq(s, LAMBDA c : c \in Digits)

price_conversion(price) == StripNonDigits(BeforeFirstDot(price))

\* consuming divide(lst, n) raises when range() refuses its step
divide_raises(list, size) == size = 0

\* divide with the slice end off by one: lst[i : i + n + 1]
divide_long_slice(list, size) ==
    LET starts == Range(0, Len(list), size)
    IN  [k \in 1..Len(starts) |-> Slice(list, starts[k], starts[k] + size + 1)]

\* the chunks divide(lst, n) yields, in yield order
divide(list, size) ==
    LET starts == Range(0, Len(list), size)
    IN  [k \in 1..Len(starts) |-> Slice(list, starts[k], starts[k] + size)]

---------------------------------------------------------------------------
(* create_stocks, create_prices of both marketplaces *)

\* the three-way quantity policy inside create_stocks
stock_raises(count) ==
    count # <<">", "1", "0">> /\ count # <<"1">> /\ int_raises(count)

\* the quantity policy without its "1" branch
stock_of_no_one(count) ==
    IF count = <<">", "1", "0">> THEN 100 ELSE int_value(count)

stock_of(count) ==
    IF count = <<">", "1", "0">> THEN 100
    ELSE IF count = <<"1">> THEN 0
    ELSE int_value(count)

warehouse_id ==
    CASE campaign = "FBS" -> "WAREHOUSE_FBS_ID"
      [] campaign = "DBS" -> "WAREHOUSE_DBS_ID"
      [] OTHER -> "warehouse"
date == "date"

seller_stock(offer_id, stock) == [offer_id |-> offer_id, stock |-> stock]

market_stock(sku, count) ==
    [sku |-> sku, warehouseId |-> warehouse_id,
     items |-> <<[count |-> count, type |-> "FIT", updatedAt |-> date]>>]

stock_entry(m, id, count) ==
    IF m = "seller" THEN seller_stock(id, count) ELSE market_stock(id, count)

\* first loop of create_stocks from record i on; a ValueError of int() leaves
\* the function with the caller's list as mutated so far
RECURSIVE stocks_loop(_, _, _, _, _)
stocks_loop(m, remnants, i, ids, acc) ==
    IF i > Len(remnants) THEN [raised |-> FALSE, offer_ids |-> ids, stocks |-> acc]
    ELSE LET watch == remnants[i] IN
         IF ~In(watch.Kod, ids) THEN stocks_loop(m, remnants, i + 1, ids, acc)
         ELSE IF stock_raises(watch.Kolichestvo)
              THEN [raised |-> TRUE, offer_ids |-> ids, stocks |-> acc]
              ELSE stocks_loop(m, remnants, i + 1, Remove(ids, watch.Kod),
                       Append(acc, stock_entry(m, watch.Kod, stock_of(watch.Kolichestvo))))

\* create_stocks with the zero entries put in front of the matched ones
create_stocks_zero_first(m, remnants, ids) ==
    LET first == stocks_loop(m, remnants, 1, ids, <<>>)
        rest  == first.offer_ids
    IN  IF first.raised THEN first
        ELSE [raised |-> FALSE, offer_ids |-> rest,
              stocks |-> [k \in 1..Len(rest) |-> stock_entry(m, rest[k], 0)] \o first.stocks]

\* create_stocks: the matching loop, then a zero entry per id still in the list
create_stocks(m, remnants, ids) ==
    LET first == stocks_loop(m, remnants, 1, ids, <<>>)
        rest  == first.offer_ids
    IN  IF first.raised THEN first
        ELSE [raised |-> FALSE, offer_ids |-> rest,
              stocks |-> first.stocks \o [k \in 1..Len(rest) |-> stock_entry(m, rest[k], 0)]]

seller_price(watch) ==
    [auto_action_enabled |-> "UNKNOWN", currency_code |-> "RUB",
     offer_id |-> watch.Kod, old_price |-> "0",
     price |-> price_conversion(watch.Tsena)]

market_price(watch) ==
    [id |-> watch.Kod,
     price |-> [value |-> int_value(price_conversion(watch.Tsena)), currencyId |-> "RUR"]]

\* market.create_prices applies int() to the converted price
price_raises(m, watch) == m = "market" /\ int_raises(price_conversion(watch.Tsena))

price_entry(m, watch) == IF m = "seller" THEN seller_price(watch) ELSE market_price(watch)

\* create_prices: one entry per record whose code is in offer_ids (the list is
\* only read); the first record whose price does not convert raises
create_prices(m, remnants, ids) ==
    LET hit == SelectSeq(remnants, LAMBDA watch : In(watch.Kod, ids))
    IN  IF \E k \in 1..Len(hit) : price_raises(m, hit[k])
        THEN [raised |-> TRUE, prices |-> <<>>]
        ELSE [raised |-> FALSE, prices |-> [k \in 1..Len(hit) |-> price_entry(m, hit[k])]]

---------------------------------------------------------------------------
(* Inputs *)

SeqsUpTo(S, max) == UNION {[1..m -> S] : m \in 0..max}

Distinct(list) == \A i, j \in 1..Len(list) : list[i] = list[j] => i = j

Ids == {"A", "B", "C"}

\* feed rows: quantity and price cells as the supplier's sheet spells them
P5990 == <<"5", "'", "9", "9", "0", ".", "0", "0", " ", "r", "u", "b", ".">>

Cells ==
    {<< <<">", "1", "0">>, P5990 >>,
     << <<"1">>, P5990 >>,
     << <<"7">>, <<".", "9", "9">> >>,
     << <<"-", "5">>, P5990 >>,
     << <<"a", "b", "c">>, P5990 >>}

Records == {[Kod |-> c, Kolichestvo |-> x[1], Tsena |-> x[2]] : c \in Ids, x \in Cells}

Items == {1, 2}

---------------------------------------------------------------------------
(* Reconciliation: create_stocks and create_prices applied to a feed and a *)
(* catalog list                                                            *)

NoLists ==
    /\ stocks = <<>> /\ prices = <<>>
    /\ stocks_ret = "none" /\ prices_ret = "none"

NoDivide == lst = <<>> /\ n = 1 /\ chunks = <<>> /\ divide_ret = "none"

NoRequests ==
    /\ page = 0 /\ product_list = <<>> /\ batches = <<>> /\ sent = 0
    /\ phase = "stocks" /\ not_empty = <<>> /\ error = ""
    /\ inflight = "none" /\ calls = <<>> /\ answered = 0 /\ replies = <<>>
    /\ campaign = "" /\ catalog_dbs = <<>>

InitReconcile ==
    /\ flow = "reconcile"
    /\ market \in {"seller", "market"}
    /\ watch_remnants \in SeqsUpTo(Records, MaxFeedLen)
    /\ catalog \in {c \in SeqsUpTo(Ids, MaxCatalogLen) : Distinct(c)}
    /\ offer_ids = catalog
    /\ pc = "idle"
    /\ NoLists /\ NoDivide /\ NoRequests

\* stocks = create_stocks(watch_remnants, offer_ids) on a list holding the catalog
CreateStocks ==
    /\ flow = "reconcile" /\ stocks_ret = "none"
    /\ LET r == create_stocks(market, watch_remnants, catalog) IN
         /\ stocks' = r.stocks
         /\ offer_ids' = r.offer_ids
         /\ stocks_ret' = IF r.raised THEN "raised" ELSE "returned"
    /\ UNCHANGED <<feedVars, prices, prices_ret, pureVars, loopVars, netVars>>

\* prices = create_prices(watch_remnants, offer_ids) on a list holding the catalog
CreatePrices ==
    /\ flow = "reconcile" /\ prices_ret = "none"
    /\ LET r == create_prices(market, watch_remnants, catalog) IN
         /\ prices' = r.prices
         /\ prices_ret' = IF r.raised THEN "raised" ELSE "returned"
    /\ UNCHANGED <<feedVars, offer_ids, stocks, stocks_ret, pureVars, loopVars, netVars>>

NextReconcile == CreateStocks \/ CreatePrices

SpecReconcile == InitReconcile /\ [][NextReconcile]_vars

---------------------------------------------------------------------------
(* The batch partitioner: list(divide(lst, n))                             *)

InitDivide ==
    /\ flow = "divide"
    /\ market = "seller"
    /\ watch_remnants = <<>> /\ catalog = <<>> /\ offer_ids = <<>>
    /\ lst \in SeqsUpTo(Items, MaxListLen)
    /\ n \in (0 - MaxChunk)..MaxChunk
    /\ chunks = <<>> /\ divide_ret = "none"
    /\ pc = "idle"
    /\ NoLists /\ NoRequests

ConsumeDivide ==
    /\ flow = "divide" /\ divide_ret = "none"
    /\ IF divide_raises(lst, n)
       THEN chunks' = <<>> /\ divide_ret' = "raised"
       ELSE chunks' = divide(lst, n) /\ divide_ret' = "returned"
    /\ UNCHANGED <<feedVars, listVars, lst, n, loopVars, netVars>>

NextDivide == ConsumeDivide

SpecDivide == InitDivide /\ [][NextDivide]_vars

---------------------------------------------------------------------------
(* The upload functions and seller.main: the catalog fetch, the            *)
(* reconciliation, and one submission per batch. Every request blocks the  *)
(* program until its response (or its failure) arrives.                    *)

SellerPageLimit == 1000
MarketPageLimit == 200

SellerStockCeiling == 100
SellerPriceCeiling == 1000
SellerMainStockCeiling == 100
SellerMainPriceCeiling == 900
MarketStockCeiling == 2000
MarketMainStockCeiling == 2000
MarketPriceCeiling == 500

\* length of the last, shorter batch in the long scenarios
TailLen == 50

Limit == IF market = "seller" THEN SellerPageLimit ELSE MarketPageLimit

\* the n of divide(updates, n) in the function under way
Ceiling(ph) ==
    CASE market = "seller" /\ flow = "main" /\ ph = "stocks" -> SellerMainStockCeiling
      [] market = "seller" /\ flow = "main" /\ ph = "prices" -> SellerMainPriceCeiling
      [] market = "seller" /\ flow # "main" /\ ph = "stocks" -> SellerStockCeiling
      [] market = "seller" /\ flow # "main" /\ ph = "prices" -> SellerPriceCeiling
      [] market = "market" /\ flow = "main" /\ ph = "stocks" -> MarketMainStockCeiling
      [] market = "market" /\ flow # "main" /\ ph = "stocks" -> MarketStockCeiling
      [] market = "market" /\ ph = "prices" -> MarketPriceCeiling

\* requests (requests.post / get / put followed by raise_for_status) fail with
Failures == {"HTTPError", "ReadTimeout", "ConnectionError"}

\* The marketplace serves its catalog in pages of at most `limit` items, in
\* catalog order; a cursor is the number of items served before the page.
\* seller: result = {items, total, last_id}; market: result =
\* {offerMappingEntries, paging: {nextPageToken}}, no token after the last page.
\* The page holds `size` items (fewer at the end of the catalog).
ServerCatalog == IF campaign = "DBS" THEN catalog_dbs ELSE catalog

ServerResponse(cursor, size) ==
    LET upto == Min(cursor + size, Len(ServerCatalog))
    IN  [items |-> SubSeq(ServerCatalog, cursor + 1, upto),
         total |-> Len(ServerCatalog),
         next  |-> IF market = "seller" \/ upto < Len(ServerCatalog) THEN upto ELSE 0]

\* largest page the marketplace cuts when it serves less than the limit
MaxPage == 3

\* page sizes the marketplace may choose: any up to MaxPage while the catalog
\* fetch is looked at on its own, the full limit elsewhere
PageSizes == IF flow = "get_offer_ids" THEN 1..Min(MaxPage, Limit) ELSE {Limit}

\* the loop of get_offer_ids left after its first page
fetch_stops_at_once(some_prod, more) == TRUE

\* the exit test of the loop of get_offer_ids, product_list being `more`
fetch_stops(some_prod, more) ==
    IF market = "seller" THEN some_prod.total = Len(more) ELSE some_prod.next = 0

\* the program's local state between two requests
Cur ==
    [pc |-> pc, error |-> error, offer_ids |-> offer_ids, stocks |-> stocks,
     prices |-> prices, stocks_ret |-> stocks_ret, prices_ret |-> prices_ret,
     batches |-> batches, sent |-> sent, phase |-> phase, not_empty |-> not_empty,
     page |-> page, product_list |-> product_list, campaign |-> campaign]

Assign(st) ==
    /\ pc' = st.pc /\ error' = st.error /\ offer_ids' = st.offer_ids
    /\ stocks' = st.stocks /\ prices' = st.prices
    /\ stocks_ret' = st.stocks_ret /\ prices_ret' = st.prices_ret
    /\ batches' = st.batches /\ sent' = st.sent /\ phase' = st.phase
    /\ not_empty' = st.not_empty
    /\ page' = st.page /\ product_list' = st.product_list /\ campaign' = st.campaign

\* an exception leaves upload_* (it reaches the caller); main catches it, prints
\* and returns, except that market.main calls download_stock before its try
Thrown(st, exc) ==
    LET caught == flow = "main" /\ ~(market = "market" /\ st.pc = "download")
    IN  [st EXCEPT !.pc = IF caught THEN "returned" ELSE "raised", !.error = exc]

\* prices = create_prices(watch_remnants, offer_ids), then list(divide(prices, n));
\* with no batch the function is over
begin_prices(st) ==
    LET r == create_prices(market, watch_remnants, st.offer_ids)
        b == divide(r.prices, Ceiling("prices"))
    IN  IF r.raised
        THEN Thrown([st EXCEPT !.prices_ret = "raised", !.phase = "prices"], "ValueError")
        ELSE [st EXCEPT !.prices = r.prices, !.prices_ret = "returned",
                        !.phase = "prices", !.batches = b, !.sent = 0,
                        !.pc = IF b = <<>> THEN "returned" ELSE "batch"]

\* market.main: upload_prices(watch_remnants, campaign_id, market_token), an
\* `async def`, is called without await: the call builds a coroutine object
\* that is dropped, the body of upload_prices does not run
unawaited_upload_prices(st) == st

\* market.main after a campaign: the DBS catalog fetch, or the end of the try
next_campaign(st) ==
    IF st.campaign = "FBS"
    THEN [st EXCEPT !.campaign = "DBS", !.pc = "page", !.page = 0, !.product_list = <<>>]
    ELSE [st EXCEPT !.pc = "returned"]

\* after the last stock batch: upload_stocks filters not_empty and returns,
\* seller.main goes on to the prices with the same offer_ids list, market.main
\* calls upload_prices and goes on to the next campaign
end_stocks(st) ==
    IF flow = "main" /\ market = "seller" THEN begin_prices(st)
    ELSE IF flow = "main" THEN next_campaign(unawaited_upload_prices(st))
    ELSE [st EXCEPT !.pc = "returned",
                    !.not_empty = SelectSeq(st.stocks, LAMBDA e :
                        (IF market = "seller" THEN e.stock ELSE e.items[1].count) # 0)]

\* stocks = create_stocks(watch_remnants, offer_ids), which mutates the list
\* offer_ids names, then list(divide(stocks, n))
begin_stocks(st) ==
    LET r == create_stocks(market, watch_remnants, st.offer_ids)
        b == divide(r.stocks, Ceiling("stocks"))
    IN  IF r.raised
        THEN Thrown([st EXCEPT !.offer_ids = r.offer_ids, !.stocks_ret = "raised",
                               !.phase = "stocks"], "ValueError")
        ELSE LET s2 == [st EXCEPT !.offer_ids = r.offer_ids, !.stocks = r.stocks,
                                  !.stocks_ret = "returned", !.phase = "stocks",
                                  !.batches = b, !.sent = 0, !.pc = "batch"]
             IN  IF b = <<>> THEN end_stocks(s2) ELSE s2

\* get_offer_ids returned ids
fetched(st, ids) ==
    LET s1 == [st EXCEPT !.offer_ids = ids] IN
    CASE flow = "upload_stocks" -> begin_stocks(s1)
      [] flow = "upload_prices" -> begin_prices(s1)
      [] flow = "main" /\ market = "seller" -> [s1 EXCEPT !.pc = "download"]
      [] flow = "main" /\ market = "market" -> begin_stocks(s1)
      [] flow = "get_offer_ids" -> [s1 EXCEPT !.pc = "returned"]

\* update_stocks / update_price returned: the for loop takes the next batch
\* or ends
batch_done_skipping(st) ==
    LET s1 == [st EXCEPT !.sent = st.sent + 2] IN
    IF s1.sent < Len(st.batches) THEN s1
    ELSE IF st.phase = "stocks" THEN end_stocks(s1)
    ELSE [s1 EXCEPT !.pc = "returned"]

batch_done(st) ==
    LET s1 == [st EXCEPT !.sent = st.sent + 1] IN
    IF s1.sent < Len(st.batches) THEN s1
    ELSE IF st.phase = "stocks" THEN end_stocks(s1)
    ELSE [s1 EXCEPT !.pc = "returned"]

\* a failed submission handled as if the loop went on
batch_failed_swallowed(st, exc) == [batch_done(st) EXCEPT !.error = exc]

\* update_stocks / update_price raised inside the for loop
batch_failed(st, exc) == Thrown(st, exc)

\* get_product_list(last_id, ...) is called
RequestPage ==
    /\ pc = "page" /\ inflight = "none"
    /\ inflight' = "get_product_list"
    /\ calls' = Append(calls, [kind |-> "get_product_list", cursor |-> page,
                               payload |-> <<>>, campaign |-> campaign])
    /\ UNCHANGED <<feedVars, listVars, pureVars, loopVars, answered, replies>>

\* the page arrives: extend product_list, take the cursor, test the loop's exit
PageOk ==
    /\ inflight = "get_product_list"
    /\ \E size \in PageSizes :
         LET some_prod == ServerResponse(page, size)
             more == product_list \o some_prod.items
             s1   == [Cur EXCEPT !.product_list = more, !.page = some_prod.next]
         IN  /\ Assign(IF fetch_stops(some_prod, more) THEN fetched(s1, more) ELSE s1)
             /\ replies' = Append(replies, [count |-> Len(some_prod.items),
                                            total |-> some_prod.total,
                                            next |-> some_prod.next])
    /\ inflight' = "none" /\ answered' = answered + 1
    /\ UNCHANGED <<feedVars, pureVars, calls>>

\* the page request fails: the exception leaves get_offer_ids
PageFails ==
    /\ inflight = "get_product_list"
    /\ \E exc \in Failures : Assign(Thrown(Cur, exc))
    /\ inflight' = "none" /\ answered' = answered + 1
    /\ UNCHANGED <<feedVars, pureVars, calls, replies>>

\* update_stocks(some_stock, ...) / update_price(some_price, ...) is called
RequestBatch ==
    /\ pc = "batch" /\ inflight = "none"
    /\ inflight' = (IF phase = "stocks" THEN "update_stocks" ELSE "update_price")
    /\ calls' = Append(calls, [kind |-> inflight', cursor |-> 0,
                               payload |-> batches[sent + 1], campaign |-> campaign])
    /\ UNCHANGED <<feedVars, listVars, pureVars, loopVars, answered, replies>>

BatchOk ==
    /\ inflight \in {"update_stocks", "update_price"}
    /\ Assign(batch_done(Cur))
    /\ inflight' = "none" /\ answered' = answered + 1
    /\ UNCHANGED <<feedVars, pureVars, calls, replies>>

BatchFails ==
    /\ inflight \in {"update_stocks", "update_price"}
    /\ \E exc \in Failures : Assign(batch_failed(Cur, exc))
    /\ inflight' = "none" /\ answered' = answered + 1
    /\ UNCHANGED <<feedVars, pureVars, calls, replies>>

\* download_stock returned: seller.main builds the stocks from the ids it has
\* fetched, market.main starts with the FBS campaign's catalog
downloaded(st) ==
    IF market = "seller" THEN begin_stocks(st)
    ELSE [st EXCEPT !.campaign = "FBS", !.pc = "page", !.page = 0, !.product_list = <<>>]

\* main: watch_remnants = download_stock()
RequestDownload ==
    /\ pc = "download" /\ inflight = "none"
    /\ inflight' = "download_stock"
    /\ calls' = Append(calls, [kind |-> "download_stock", cursor |-> 0,
                               payload |-> <<>>, campaign |-> campaign])
    /\ UNCHANGED <<feedVars, listVars, pureVars, loopVars, answered, replies>>

DownloadOk ==
    /\ inflight = "download_stock"
    /\ Assign(downloaded(Cur))
    /\ inflight' = "none" /\ answered' = answered + 1
    /\ UNCHANGED <<feedVars, pureVars, calls, replies>>

DownloadFails ==
    /\ inflight = "download_stock"
    /\ \E exc \in Failures : Assign(Thrown(Cur, exc))
    /\ inflight' = "none" /\ answered' = answered + 1
    /\ UNCHANGED <<feedVars, pureVars, calls, replies>>

\* the state at the call of an upload function or of main
Called ==
    /\ offer_ids = <<>>
    /\ pc = "page" /\ page = 0 /\ product_list = <<>> /\ batches = <<>> /\ sent = 0
    /\ phase = "stocks" /\ not_empty = <<>> /\ error = ""
    /\ inflight = "none" /\ calls = <<>> /\ answered = 0 /\ replies = <<>>
    /\ NoLists /\ NoDivide

\* catalogs and feeds long enough to fill more than one batch
LongCatalog(len) == [i \in 1..len |-> ToString(i)]

LongFeed(len) ==
    [i \in 1..len |-> [Kod |-> ToString(i), Kolichestvo |-> <<"7">>, Tsena |-> P5990]]

ShortFeeds ==
    {<<>>,
     <<[Kod |-> "2", Kolichestvo |-> <<">", "1", "0">>, Tsena |-> P5990],
       [Kod |-> "1", Kolichestvo |-> <<"7">>, Tsena |-> P5990]>>,
     <<[Kod |-> "1", Kolichestvo |-> <<"a", "b", "c">>, Tsena |-> P5990]>>}

Sizes(c) == {0, 1, c, c + 1, 2 * c + TailLen}

\* upload_stocks(watch_remnants, ...) / upload_prices(watch_remnants, ...) of
\* either module is called
InitUpload ==
    /\ market \in {"seller", "market"}
    /\ flow \in {"upload_stocks", "upload_prices"}
    /\ \E len \in Sizes(Ceiling(IF flow = "upload_stocks" THEN "stocks" ELSE "prices")) :
          IF flow = "upload_stocks"
          THEN catalog = LongCatalog(len) /\ watch_remnants \in ShortFeeds
          ELSE catalog = LongCatalog(len + 1) /\ watch_remnants = LongFeed(len)
    /\ catalog_dbs = <<>> /\ campaign = ""
    /\ Called

NextUpload ==
    \/ RequestPage \/ PageOk \/ PageFails
    \/ RequestBatch \/ BatchOk \/ BatchFails

SpecUpload == InitUpload /\ [][NextUpload]_vars

\* the feed of the end-to-end scenario
P1000 == <<"1", "'", "0", "0", "0", ".", "0", "0", " ", "r", "u", "b", ".">>
P2500 == <<"2", "'", "5", "0", "0", ".", "0", "0", " ", "r", "u", "b", ".">>

ScenarioFeed ==
    <<[Kod |-> "A", Kolichestvo |-> <<">", "1", "0">>, Tsena |-> P1000],
      [Kod |-> "C", Kolichestvo |-> <<"1">>, Tsena |-> P2500]>>

\* seller.main is started
InitMain ==
    /\ market = "seller"
    /\ flow = "main"
    /\ catalog \in {c \in SeqsUpTo(Ids, MaxCatalogLen) : Distinct(c)}
    /\ watch_remnants \in SeqsUpTo(Records, MaxFeedLen) \cup {ScenarioFeed}
    /\ catalog_dbs = <<>> /\ campaign = ""
    /\ Called

NextMain ==
    \/ RequestPage \/ PageOk \/ PageFails
    \/ RequestDownload \/ DownloadOk \/ DownloadFails
    \/ RequestBatch \/ BatchOk \/ BatchFails

SpecMain == InitMain /\ [][NextMain]_vars

\* longest catalog of the DBS campaign
MaxDbsLen == 1

\* market.main is started: download_stock comes first
InitMarketMain ==
    /\ market = "market"
    /\ flow = "main"
    /\ catalog \in {c \in SeqsUpTo(Ids, MaxCatalogLen) : Distinct(c)}
    /\ catalog_dbs \in {c \in SeqsUpTo(Ids, MaxDbsLen) : Distinct(c)}
    /\ watch_remnants \in SeqsUpTo(Records, MaxFeedLen)
    /\ campaign = ""
    /\ offer_ids = <<>>
    /\ pc = "download" /\ page = 0 /\ product_list = <<>> /\ batches = <<>> /\ sent = 0
    /\ phase = "stocks" /\ not_empty = <<>> /\ error = ""
    /\ inflight = "none" /\ calls = <<>> /\ answered = 0 /\ replies = <<>>
    /\ NoLists /\ NoDivide

SpecMarketMain == InitMarketMain /\ [][NextMain]_vars

\* longest catalog of the fetch looked at on its own
MaxFetchLen == 6

\* get_offer_ids of either module is called; the marketplace holds a fixed
\* catalog and answers every page request
InitFetch ==
    /\ market \in {"seller", "market"}
    /\ flow = "get_offer_ids"
    /\ \E len \in 0..MaxFetchLen : catalog = LongCatalog(len)
    /\ watch_remnants = <<>>
    /\ catalog_dbs = <<>> /\ campaign = ""
    /\ Called

NextFetch == RequestPage \/ PageOk

\* the body of `while True` is straight-line code: the request is issued, and
\* a request that succeeds is answered
SpecFetch ==
    InitFetch /\ [][NextFetch]_vars /\ WF_vars(RequestPage) /\ WF_vars(PageOk)

---------------------------------------------------------------------------
(* Reading the update lists *)

StockId(e) == IF market = "seller" THEN e.offer_id ELSE e.sku
StockCount(e) == IF market = "seller" THEN e.stock ELSE e.items[1].count
PriceId(e) == IF market = "seller" THEN e.offer_id ELSE e.id

InFeed(id) == \E i \in 1..Len(watch_remnants) : watch_remnants[i].Kod = id

\* index of the first record of the feed whose code is id
FirstRecord(id) ==
    CHOOSE i \in 1..Len(watch_remnants) :
        /\ watch_remnants[i].Kod = id
        /\ \A j \in 1..(i - 1) : watch_remnants[j].Kod # id

CatalogIndex(id) == CHOOSE c \in 1..Len(catalog) : catalog[c] = id

\* the normalized quantity, as the quantity policy states it
Normalized(q) ==
    IF q = <<">", "1", "0">> THEN 100 ELSE IF q = <<"1">> THEN 0 ELSE int_value(q)

---------------------------------------------------------------------------
(* Claims *)

\* C1: the list create_stocks returns for a catalog of distinct ids holds exactly
\* one entry per catalog id and none for any other id; an id some record matches
\* carries the normalized quantity of the first record with that code, an id no
\* record matches carries 0.
C1_Completeness ==
    (flow = "reconcile" /\ stocks_ret = "returned") =>
        /\ Len(stocks) = Len(catalog)
        /\ \A k \in 1..Len(stocks) : In(StockId(stocks[k]), catalog)
        /\ \A c \in 1..Len(catalog) :
             \E k \in 1..Len(stocks) :
                /\ StockId(stocks[k]) = catalog[c]
                /\ \A k2 \in 1..Len(stocks) : StockId(stocks[k2]) = catalog[c] => k2 = k
                /\ StockCount(stocks[k]) =
                     IF InFeed(catalog[c])
                     THEN Normalized(watch_remnants[FirstRecord(catalog[c])].Kolichestvo)
                     ELSE 0

\* C1 witness: a returned list for a feed that repeats a catalog code with two
\* different quantities, the first of them "1", and a catalog id no record names
C1_Witness ==
    /\ flow = "reconcile" /\ stocks_ret = "returned"
    /\ \E i, j \in 1..Len(watch_remnants) :
          /\ i < j
          /\ watch_remnants[i].Kod = watch_remnants[j].Kod
          /\ In(watch_remnants[i].Kod, catalog)
          /\ watch_remnants[i].Kolichestvo = <<"1">>
          /\ watch_remnants[j].Kolichestvo = <<">", "1", "0">>
    /\ \E c \in 1..Len(catalog) : ~InFeed(catalog[c])

\* C2: run on the same feed and the same initial catalog contents, create_prices
\* yields as many price updates as create_stocks emitted matched stock updates,
\* and no price update for an id zeroed as unmatched.
C2_Exclusivity ==
    (flow = "reconcile" /\ stocks_ret = "returned" /\ prices_ret = "returned") =>
        /\ Len(prices) = Len(stocks) - Len(offer_ids)
        /\ \A p \in 1..Len(prices) : ~In(PriceId(prices[p]), offer_ids)

\* C4: in the list create_stocks returns, the matched updates come first, in the
\* feed order of their matching records, and the zeroed updates follow, in the
\* order of their ids in the catalog list.
C4_Ordering ==
    (flow = "reconcile" /\ stocks_ret = "returned") =>
        \E m \in 0..Len(stocks) :
            /\ \A k \in 1..m : InFeed(StockId(stocks[k]))
            /\ \A k \in (m + 1)..Len(stocks) :
                 ~InFeed(StockId(stocks[k])) /\ StockCount(stocks[k]) = 0
            /\ \A a, b \in 1..m :
                 a < b => FirstRecord(StockId(stocks[a])) < FirstRecord(StockId(stocks[b]))
            /\ \A a, b \in (m + 1)..Len(stocks) :
                 a < b => CatalogIndex(StockId(stocks[a])) < CatalogIndex(StockId(stocks[b]))

\* C4 witness: two matched updates whose feed order is the reverse of their
\* catalog order, followed by a zeroed update
C4_Witness ==
    /\ flow = "reconcile" /\ stocks_ret = "returned"
    /\ Len(stocks) = 3
    /\ InFeed(StockId(stocks[1])) /\ InFeed(StockId(stocks[2]))
    /\ ~InFeed(StockId(stocks[3]))
    /\ CatalogIndex(StockId(stocks[1])) > CatalogIndex(StockId(stocks[2]))

\* C9: no price update with an empty price value is in a list create_prices returns.
C9_NoEmptyPrice ==
    (flow = "reconcile" /\ prices_ret = "returned" /\ market = "seller") =>
        \A p \in 1..Len(prices) : prices[p].price # <<>>

\* C10: every stock update create_stocks produces has count >= 0.
C10_CountNonNegative ==
    (flow = "reconcile" /\ stocks_ret = "returned") =>
        \A k \in 1..Len(stocks) : StockCount(stocks[k]) >= 0

RECURSIVE Concat(_)
Concat(ss) == IF ss = <<>> THEN <<>> ELSE Head(ss) \o Concat(Tail(ss))

C6_RaisesForNonPositive ==
    (flow = "divide" /\ divide_ret # "none" /\ n <= 0) => divide_ret = "raised"

\* the submissions issued so far, in issue order
Submissions(kinds) == SelectSeq(calls, LAMBDA c : c.kind \in kinds)

Payloads(kinds) == Concat([k \in 1..Len(Submissions(kinds)) |-> Submissions(kinds)[k].payload])

\* C3: seller.main, all requests succeeding, submits after the stock batches one
\* price update for every feed record whose code is in the fetched catalog; for
\* the catalog [A, B, C] and the feed A (">10", 1'000.00), C ("1", 2'500.00) it
\* submits the stocks A:100, C:0, B:0 and the prices A:1000, C:2500.
C3_MainSubmitsPrices ==
    (flow = "main" /\ pc = "returned" /\ error = "") =>
        LET matching == SelectSeq(watch_remnants, LAMBDA w : In(w.Kod, catalog))
            priced   == Payloads({"update_price"})
        IN  /\ Len(priced) = Len(matching)
            /\ \A k \in 1..Len(priced) : priced[k].offer_id = matching[k].Kod
            /\ (catalog = <<"A", "B", "C">> /\ watch_remnants = ScenarioFeed) =>
                  /\ Payloads({"update_stocks"}) =
                        <<seller_stock("A", 100), seller_stock("C", 0), seller_stock("B", 0)>>
                  /\ [k \in 1..Len(priced) |-> <<priced[k].offer_id, priced[k].price>>] =
                        << <<"A", <<"1", "0", "0", "0">> >>, <<"C", <<"2", "5", "0", "0">> >> >>

\* the ceilings the upload functions are said to keep
StatedCeiling ==
    CASE market = "seller" /\ flow = "upload_stocks" -> 100
      [] market = "seller" /\ flow = "upload_prices" -> 1000
      [] market = "market" /\ flow = "upload_stocks" -> 2000
      [] market = "market" /\ flow = "upload_prices" -> 500

Uploaded == IF flow = "upload_stocks" THEN stocks ELSE prices

UploadKinds == {"update_stocks", "update_price"}

\* C7: in every upload function submission k carries the items
\* (k-1)*ceiling+1 .. min(k*ceiling, len) of the full update list, never more
\* than the ceiling; at most one request is outstanding at any time; and when
\* the function returns, the submissions cover the whole list.
C7_SequentialInOrder ==
    (flow \in {"upload_stocks", "upload_prices"}) =>
        LET c == StatedCeiling
            subs == Submissions(UploadKinds)
        IN  /\ Len(calls) - answered = (IF inflight = "none" THEN 0 ELSE 1)
            /\ \A k \in 1..Len(subs) :
                 /\ subs[k].payload =
                       SubSeq(Uploaded, (k - 1) * c + 1, Min(k * c, Len(Uploaded)))
                 /\ Len(subs[k].payload) \in 1..c
            /\ pc = "returned" => Len(subs) = (Len(Uploaded) + c - 1) \div c

\* C7 witness: 250 stock updates of the first marketplace went out in three
\* calls of 100, 100 and 50
C7_Witness ==
    /\ flow = "upload_stocks" /\ market = "seller" /\ pc = "returned"
    /\ Len(stocks) = 250
    /\ LET subs == Submissions(UploadKinds) IN
         /\ Len(subs) = 3
         /\ Len(subs[1].payload) = 100 /\ Len(subs[2].payload) = 100
         /\ Len(subs[3].payload) = 50

\* C8: once a request of an upload function has failed, no request is issued
\* any more (the failed one included), the error is what the caller gets; a
\* failed page request leaves no submission and no id list behind.
C8_AbortOnFailure ==
    [][ /\ error \in Failures => (calls' = calls /\ pc' = "raised" /\ error' = error)
        /\ (error = "" /\ error' \in Failures) =>
              /\ pc' = "raised" /\ inflight' = "none"
              /\ inflight = "get_product_list" =>
                    (offer_ids' = <<>> /\ Submissions(UploadKinds)' = <<>>)
      ]_vars

\* C8 witness: of 250 stock updates with ceiling 100 the second submission
\* failed and the function is over with two submissions issued
C8_Witness ==
    /\ flow = "upload_stocks" /\ market = "seller"
    /\ Len(stocks) = 250 /\ Len(batches) = 3
    /\ error \in Failures /\ pc = "raised"
    /\ Len(Submissions(UploadKinds)) = 2

RECURSIVE ItemsUpTo(_)
\* number of items the first k page responses carried
ItemsUpTo(k) == IF k = 0 THEN 0 ELSE ItemsUpTo(k - 1) + replies[k].count

\* response k ends the fetch: no next cursor (second marketplace), or as many
\* items accumulated as the response reports in total (first marketplace)
Terminating(k) ==
    IF market = "seller" THEN ItemsUpTo(k) = replies[k].total
    ELSE replies[k].next = 0

\* C11: with every page request answered and a fixed finite catalog served in
\* non-empty pages, get_offer_ids eventually returns; it returns exactly at the
\* first terminating response (empty next cursor under the cursor policy,
\* accumulated count equal to the reported total under the total-count policy)
\* and issues no page request after it; the first request carries the empty
\* cursor and each later one the cursor of the previous response.
C11_FetchTerminates ==
    /\ <>(pc = "returned")
    /\ [](/\ \A k \in 1..Len(calls) :
               calls[k].cursor = (IF k = 1 THEN 0 ELSE replies[k - 1].next)
          /\ \A k \in 1..Len(replies) : Terminating(k) => Len(calls) = k
          /\ pc = "returned" <=> (\E k \in 1..Len(replies) : Terminating(k))
          /\ pc = "returned" =>
                (Terminating(Len(replies)) /\ offer_ids = catalog
                   /\ inflight = "none"))

\* C11 witness: a catalog fetched in three pages or more, the fetch returned
\* with as many requests as responses
C11_Witness ==
    /\ flow = "get_offer_ids" /\ pc = "returned"
    /\ Len(replies) >= 3 /\ Len(calls) = Len(replies)
    /\ offer_ids = catalog

\* positions in the call log of campaign c's calls of the given kinds
CallsOf(c, kinds) ==
    {k \in 1..Len(calls) : calls[k].campaign = c /\ calls[k].kind \in kinds}

CampaignCatalog(c) == IF c = "FBS" THEN catalog ELSE catalog_dbs

\* C12: when market.main has returned with every request answered, each
\* campaign (FBS, then DBS) has had its stock batches submitted and then its
\* price updates issued, one update_price call per chunk of at most 500 price
\* updates if a supplier record matches its catalog, before the first request
\* of the next campaign.
C12_MarketMainSubmitsPrices ==
    (flow = "main" /\ market = "market" /\ pc = "returned" /\ error = "") =>
        \A c \in {"FBS", "DBS"} :
            LET matching == SelectSeq(watch_remnants,
                                      LAMBDA w : In(w.Kod, CampaignCatalog(c)))
                priced   == CallsOf(c, {"update_price"})
            IN  /\ Cardinality(priced) =
                      (Len(matching) + MarketPriceCeiling - 1) \div MarketPriceCeiling
                /\ \A k \in priced :
                      /\ \A j \in CallsOf(c, {"update_stocks"}) : j < k
                      /\ c = "FBS" =>
                            \A j \in CallsOf("DBS", {"get_product_list"}) : k < j

=============================================================================
